---- MODULE Spec2Model ----
(***************************************************************************)
(* The forward passes of elektronn3/models/randla_net.py (RandLANet and    *)
(* RandLANetClassification) as state machines.                             *)
(*                                                                         *)
(* A tensor over points is a function from positions 0..n-1 (the source's  *)
(* 0-based indices) to rows.  The coordinate tensor maps a position to the *)
(* id of the point whose coordinates the row holds; a feature tensor is a  *)
(* record [C |-> channels, rows |-> position -> term] where a term records *)
(* what the row was computed from.  The learned point-wise transforms      *)
(* (Linear, Conv2d 1x1, BatchNorm in eval mode, activations, Dropout) act   *)
(* on every row alone, so they change the channel count and leave the term *)
(* of a row as it is.  All batch elements go through the same indexing, so *)
(* the rows of one batch element are kept and the batch size B is carried  *)
(* in the shapes.  Coordinates are integers on a line and knn returns      *)
(* squared distances' order.                                               *)
(***************************************************************************)
EXTENDS Integers, Sequences, FiniteSets, TLC

VARIABLES seg, cls, pair

vars == <<seg, cls, pair>>

----------------------------------------------------------------------------
(* Bounds of the explored inputs *)

\* N ranges over ratio^4 - 1 .. ratio^4 + MaxExtra
MaxExtra == 1
\* num_neighbors ranges over 1..MaxK
MaxK == 2
\* the random permutations explored are i -> (a*i + b) % n with a in {1, 3}
\* coprime to n and b in 0..MaxShift
MaxShift == 1

(* Program constants *)

\* sub_sampling_ratio=4, decimation=4
DefaultRatio == 4
\* nn.Linear(dim_feature, 8)
StartWidth == 8
\* coordinates per point: input[..., :3], dim_feature += 3
CoordWidth == 3

----------------------------------------------------------------------------
(* Index arithmetic *)

RECURSIVE Pow(_, _)
Pow(b, e) == IF e = 0 THEN 1 ELSE b * Pow(b, e - 1)

Min(a, b) == IF a <= b THEN a ELSE b

Max(a, b) == IF a >= b THEN a ELSE b

RECURSIVE Gcd(_, _)
Gcd(a, b) == IF b = 0 THEN a ELSE Gcd(b, a % b)

Size(f) == Cardinality(DOMAIN f)

\* t[:m] along the point axis; a slice past the end is clamped
Take(f, m) == [i \in 0..(Min(m, Size(f)) - 1) |-> f[i]]

\* t[permutation] along the point axis
IndexBy(f, p) == [i \in DOMAIN p |-> f[p[i]]]

\* torch.randperm(n): the permutations of 0..n-1 explored
Randperm(n) ==
    { [i \in 0..(n - 1) |-> (a * i + b) % n] :
        a \in {m \in {1, 3} : Gcd(m, n) = 1}, b \in 0..Max(0, Min(MaxShift, n - 1)) }

\* the rank of every value of v at positions lo..hi-1, in position order
RECURSIVE RankSeq(_, _, _)
RankSeq(v, lo, hi) ==
    IF hi <= lo THEN <<>>
    ELSE IF hi = lo + 1
    THEN <<Cardinality({j2 \in DOMAIN v :
                          v[j2] < v[lo] \/ (v[j2] = v[lo] /\ j2 < lo)})>>
    ELSE RankSeq(v, lo, (lo + hi) \div 2) \o RankSeq(v, (lo + hi) \div 2, hi)

\* torch.argsort(v): position k holds the index of the k-th smallest value
ArgSort(v) ==
    LET ranks == RankSeq(v, 0, Size(v))
    IN  [k \in DOMAIN v |-> CHOOSE j \in DOMAIN v : ranks[j + 1] = k]

----------------------------------------------------------------------------
(* Neighbor search (torch_points knn), an external collaborator *)

SqDist(cloud, a, b) == (cloud[a] - cloud[b]) * (cloud[a] - cloud[b])

\* the support position nearest to point c among those not taken; of several
\* at the same distance the lowest position (tie = "low") or the highest
Nearest(cloud, tie, support, c, taken) ==
    LET cand == { <<SqDist(cloud, support[j], c), IF tie = "low" THEN j ELSE 0 - j>> :
                    j \in DOMAIN support \ taken }
        best == CHOOSE a \in cand :
                    \A b \in cand : a[1] < b[1] \/ (a[1] = b[1] /\ a[2] <= b[2])
    IN  IF tie = "low" THEN best[2] ELSE 0 - best[2]

RECURSIVE KNearest(_, _, _, _, _, _)
KNearest(cloud, tie, support, c, k, found) ==
    IF Len(found) = k THEN found
    ELSE KNearest(cloud, tie, support, c, k,
             Append(found, Nearest(cloud, tie, support, c,
                                   {found[m] : m \in 1..Len(found)})))

\* the neighbor lists of the query positions lo..hi-1, in position order
RECURSIVE KnnRows(_, _, _, _, _, _, _)
KnnRows(cloud, tie, support, query, k, lo, hi) ==
    IF hi <= lo THEN <<>>
    ELSE IF hi = lo + 1 THEN <<KNearest(cloud, tie, support, query[lo], k, <<>>)>>
    ELSE KnnRows(cloud, tie, support, query, k, lo, (lo + hi) \div 2)
         \o KnnRows(cloud, tie, support, query, k, (lo + hi) \div 2, hi)

\* knn(support, query, k): for every query point the k nearest support
\* positions, nearest first; fails when the support has fewer than k points
knn(cloud, tie, support, query, k) ==
    IF Size(support) < k
    THEN [ok |-> FALSE, idx |-> <<>>]
    ELSE LET rows == KnnRows(cloud, tie, support, query, k, 0, Size(query))
         IN  [ok |-> TRUE, idx |-> [i \in DOMAIN query |-> rows[i + 1]]]

----------------------------------------------------------------------------
(* Layers.  Inside a block a tensor of shape (B, C, n, K) is the record     *)
(* [C, n, K]; C = -1 marks a failed operation (an exception in the source). *)

Bad == [C |-> -1, n |-> 0, K |-> 0]

\* SharedMLP.forward: a 1x1 convolution from in_channels to out_channels
SharedMLP(t, in_channels, out_channels) ==
    IF t.C = in_channels THEN [t EXCEPT !.C = out_channels] ELSE Bad

\* LocalSpatialEncoding.forward: gathers each point's K neighbor coordinates,
\* builds the 10-channel relative encoding, maps it to d channels and
\* concatenates the point's own features
LocalSpatialEncoding(n_coords, features, knn_output, d) ==
    LET idx == knn_output.idx
        N == Size(idx)
        K == IF N = 0 THEN 0 ELSE Len(idx[0])
        concat == [C |-> CoordWidth + CoordWidth + CoordWidth + 1, n |-> N, K |-> K]
    IN  IF /\ n_coords = N
           /\ \A i \in DOMAIN idx : \A k \in 1..K : idx[i][k] \in 0..(n_coords - 1)
           /\ features.n = N /\ features.K = 1 /\ features.C >= 0
        THEN [C |-> SharedMLP(concat, 10, d).C + features.C, n |-> N, K |-> K]
        ELSE Bad

\* AttentivePooling.forward: softmax scores over the last axis, weighted sum
\* over it (keepdim), then a shared MLP
AttentivePooling(t, in_channels, out_channels) ==
    LET scores == SharedMLP(t, in_channels, in_channels)
        features == IF scores.C = t.C /\ t.C >= 0 THEN [t EXCEPT !.K = 1] ELSE Bad
    IN  SharedMLP(features, in_channels, out_channels)

\* LocalFeatureAggregation.forward on coords (position -> point id) and the
\* feature tensor x: the shape of the result, or Bad
LfaShape(n_coords, features, knn_output, d_in, d_out) ==
    LET x1 == SharedMLP(features, d_in, d_out \div 2)
        x2 == LocalSpatialEncoding(n_coords, x1, knn_output, d_out \div 2)
        x3 == AttentivePooling(x2, d_out, d_out \div 2)
        x4 == LocalSpatialEncoding(n_coords, x3, knn_output, d_out \div 2)
        x5 == AttentivePooling(x4, d_out, d_out)
        m == SharedMLP(x5, d_out, 2 * d_out)
        s == SharedMLP(features, d_in, 2 * d_out)
    IN  IF m.C >= 0 /\ m = s THEN m ELSE Bad

\* row i of the block's result is computed from the point's own feature row,
\* its coordinates and the coordinates of its K neighbors
LfaRows(coords, rows, idx) ==
    [i \in DOMAIN idx |->
        <<"lfa", rows[i], coords[i],
          [k \in 1..Len(idx[i]) |-> coords[idx[i][k]]]>>]

LocalFeatureAggregation(cloud, tie, coords, x, d_in, d_out, num_neighbors) ==
    LET knn_output == knn(cloud, tie, coords, coords, num_neighbors)
        shape == IF knn_output.ok
                 THEN LfaShape(Size(coords), [C |-> x.C, n |-> Size(x.rows), K |-> 1],
                               knn_output, d_in, d_out)
                 ELSE Bad
    IN  [ok |-> shape.C >= 0,
         knn_ok |-> knn_output.ok,
         idx |-> knn_output.idx,
         x |-> IF shape.C >= 0
               THEN [C |-> shape.C, rows |-> LfaRows(coords, x.rows, knn_output.idx)]
               ELSE [C |-> -1, rows |-> <<>>]]

----------------------------------------------------------------------------
(* RandLANet (segmentation) *)

\* self.encoder: (d_in, d_out) of each LocalFeatureAggregation
encoder == << <<8, 16>>, <<32, 64>>, <<128, 128>>, <<256, 256>> >>

\* self.mlp = SharedMLP(512, 512)
mlp == <<512, 512>>

\* self.decoder: (in_channels, out_channels) of each SharedMLP
decoder == << <<1024, 256>>, <<512, 128>>, <<256, 32>>, <<64, 8>> >>

\* self.fc_end on a tensor with C channels: SharedMLP(8, 64), SharedMLP(64, 32),
\* Dropout, SharedMLP(32, num_classes)
fc_end(t, num_classes) ==
    SharedMLP(SharedMLP(SharedMLP(t, 8, 64), 64, 32), 32, num_classes)

Stages == Len(encoder)

\* the coordinate of every point of the input cloud
Cloud(layout, n) ==
    [id \in 0..(n - 1) |-> IF layout = "line" THEN id ELSE (id * id) % 13]

NoTensor == [C |-> 0, rows |-> <<>>]

\* the arguments of a call model(input, features) and the locals of forward
\* before its first statement; input[j] is the id of the point in row j.
\* draws, pushes, pops, last, support_n, gather_n, query_n, skip_n and
\* popped_from record what the statements executed so far did
NewRun(cfg, input) ==
    [cfg |-> cfg, cloud |-> Cloud(cfg.layout, cfg.N), input |-> input,
     pc |-> "start", err |-> "none",
     N |-> 0, d |-> 0, coords |-> <<>>, x |-> NoTensor, x_stack |-> <<>>,
     permutation |-> <<>>, decimation_ratio |-> 0, stage |-> 0,
     neighbors |-> <<>>, scores |-> <<>>, shape |-> <<>>,
     draws |-> 0, pushes |-> 0, pops |-> 0, last |-> "none",
     support_n |-> 0, gather_n |-> 0, query_n |-> 0, skip_n |-> 0,
     popped_from |-> -1, at |-> -1]

Abort(r, why) == [r EXCEPT !.pc = "abort", !.err = why]

\* input = torch.cat((input, features), 2) ... x_stack = []
SegStart(r) ==
    LET width == CoordWidth + r.cfg.D
        x0 == SharedMLP([C |-> width, n |-> Size(r.input), K |-> 1],
                        r.cfg.D + CoordWidth, StartWidth)
    IN  IF x0.C < 0 THEN Abort(r, "channels")
        ELSE [r EXCEPT !.pc = "permute",
                       !.N = Size(r.input),
                       !.d = r.cfg.d,
                       !.coords = r.input,
                       !.x = [C |-> x0.C,
                              rows |-> [j \in DOMAIN r.input |-> <<"in", r.input[j]>>]],
                       !.decimation_ratio = 1,
                       !.x_stack = <<>>]

\* permutation = torch.randperm(N); coords = coords[:, permutation];
\* x = x[:, :, permutation]
SegPermute(r, p) ==
    [r EXCEPT !.pc = "encode",
              !.permutation = p,
              !.draws = r.draws + 1,
              !.coords = IndexBy(r.coords, p),
              !.x = [C |-> r.x.C, rows |-> IndexBy(r.x.rows, p)]]

\* the arguments of lfa(coords[:, :N // decimation_ratio], x)
EncoderInput(r) ==
    [coords |-> Take(r.coords, r.N \div r.decimation_ratio), x |-> r.x]

\* x = x[:, :, :N // decimation_ratio] before decimation_ratio *= d
DecimateStale(r, x, ratio) ==
    [C |-> x.C, rows |-> Take(x.rows, r.N \div r.decimation_ratio)]

\* x = x[:, :, :N // decimation_ratio] after decimation_ratio *= d
Decimate(r, x, ratio) == [C |-> x.C, rows |-> Take(x.rows, r.N \div ratio)]

\* the append left out: the stack as it was
NoPush(stack, entry) == stack

\* x_stack.append(x.clone())
Push(stack, entry) == Append(stack, entry)

\* one iteration of `for lfa in self.encoder`
SegEncode(r) ==
    LET lfa == encoder[r.stage + 1]
        in == EncoderInput(r)
        out == LocalFeatureAggregation(r.cloud, r.cfg.tie, in.coords, in.x,
                                       lfa[1], lfa[2], r.cfg.K)
        ratio == r.decimation_ratio * r.d
        pushed == Push(r.x_stack,
                       [C |-> out.x.C, rows |-> out.x.rows, from |-> r.stage])
        seen == [r EXCEPT !.neighbors = out.idx, !.last = "enc", !.at = r.stage,
                          !.support_n = Size(in.coords),
                          !.query_n = Size(in.coords),
                          !.gather_n = Size(in.coords)]
    IN  IF ~out.knn_ok THEN Abort(r, "knn")
        ELSE IF ~out.ok THEN Abort(seen, "shape")
        ELSE [seen EXCEPT !.x_stack = pushed,
                          !.pushes = r.pushes + (Len(pushed) - Len(r.x_stack)),
                          !.decimation_ratio = ratio,
                          !.x = Decimate(r, out.x, ratio),
                          !.stage = r.stage + 1,
                          !.pc = IF r.stage + 1 = Len(encoder) THEN "bridge"
                                 ELSE "encode"]

\* x = self.mlp(x)
SegBridge(r) ==
    LET t == SharedMLP([C |-> r.x.C, n |-> Size(r.x.rows), K |-> 1], mlp[1], mlp[2])
    IN  IF t.C < 0 THEN Abort(r, "channels")
        ELSE [r EXCEPT !.x = [C |-> t.C, rows |-> r.x.rows],
                       !.stage = 0,
                       !.pc = "decode"]

\* d * (N // decimation_ratio): the division taken first
UpsampledCountFloorFirst(r) == r.d * (r.N \div r.decimation_ratio)

\* the point count of the upsampled set: coords[:, :d * N // decimation_ratio]
UpsampledCount(r) == (r.d * r.N) \div r.decimation_ratio

\* the point count of the original set: coords[:, :N // decimation_ratio]
OriginalCount(r) == r.N \div r.decimation_ratio

\* knn(upsampled set, original set, 1): the arguments in the other order
UpsampleSetsSwapped(r) ==
    [support |-> Take(r.coords, UpsampledCount(r)),
     query |-> Take(r.coords, OriginalCount(r))]

\* the two sets of knn(original set, upsampled set, 1)
UpsampleSets(r) ==
    [support |-> Take(r.coords, OriginalCount(r)),
     query |-> Take(r.coords, UpsampledCount(r))]

\* x_stack.pop(0): the first entry and the stack without it
PopFirst(stack) == [top |-> stack[1], rest |-> SubSeq(stack, 2, Len(stack))]

\* x_stack.pop(): the last entry and the stack without it
Pop(stack) ==
    [top |-> stack[Len(stack)], rest |-> SubSeq(stack, 1, Len(stack) - 1)]

\* one iteration of `for mlp in self.decoder`
SegDecode(r) ==
    LET layer == decoder[r.stage + 1]
        sets == UpsampleSets(r)
        nb == knn(r.cloud, r.cfg.tie, sets.support, sets.query, 1)
        n_x == Size(r.x.rows)
        seen == [r EXCEPT !.neighbors = nb.idx, !.last = "dec", !.at = r.stage,
                          !.support_n = Size(sets.support),
                          !.query_n = Size(nb.idx),
                          !.gather_n = n_x]
        gather_ok == \A i \in DOMAIN nb.idx : nb.idx[i][1] \in 0..(n_x - 1)
        x_neighbors == [i \in DOMAIN nb.idx |-> r.x.rows[nb.idx[i][1]]]
        popped == Pop(r.x_stack)
        after == [seen EXCEPT !.x_stack = popped.rest,
                              !.pops = r.pops + (Len(r.x_stack) - Len(popped.rest)),
                              !.skip_n = Size(popped.top.rows),
                              !.popped_from = popped.top.from]
        cat == [C |-> r.x.C + popped.top.C, n |-> Size(nb.idx), K |-> 1]
        t == SharedMLP(cat, layer[1], layer[2])
    IN  IF ~nb.ok THEN Abort(r, "knn")
        ELSE IF ~gather_ok THEN Abort(seen, "gather")
        ELSE IF r.x_stack = <<>> THEN Abort(seen, "pop")
        ELSE IF Size(nb.idx) # Size(popped.top.rows) THEN Abort(after, "cat")
        ELSE IF t.C < 0 THEN Abort(after, "channels")
        ELSE [after EXCEPT !.x = [C |-> t.C,
                                  rows |-> [i \in DOMAIN nb.idx |->
                                      <<"dec", x_neighbors[i], popped.top.rows[i]>>]],
                           !.decimation_ratio = r.decimation_ratio \div r.d,
                           !.stage = r.stage + 1,
                           !.pc = IF r.stage + 1 = Len(decoder) THEN "unpermute"
                                  ELSE "decode"]

\* x = x[:, :, permutation]: the permutation applied a second time
PermutedAgain(r) == IndexBy(r.x.rows, r.permutation)

\* x left in the permuted order
NotInverted(r) == r.x.rows

\* x = x[:, :, torch.argsort(permutation)]
InversePermutation(r) == IndexBy(r.x.rows, ArgSort(r.permutation))

SegUnpermute(r) ==
    IF \E k \in DOMAIN r.permutation : k >= Size(r.x.rows)
    THEN Abort(r, "index")
    ELSE [r EXCEPT !.x = [C |-> r.x.C, rows |-> InversePermutation(r)],
                   !.pc = "head"]

\* return scores.squeeze(-1): the transpose left out
SegHeadNoTranspose(r) ==
    LET t == fc_end([C |-> r.x.C, n |-> Size(r.x.rows), K |-> 1], r.cfg.num_classes)
    IN  IF t.C < 0 THEN Abort(r, "channels")
        ELSE [r EXCEPT !.scores = r.x.rows,
                       !.shape = <<r.cfg.B, t.C, t.n>>,
                       !.pc = "done"]

\* scores = self.fc_end(x); return scores.squeeze(-1).transpose(2, 1)
SegHead(r) ==
    LET t == fc_end([C |-> r.x.C, n |-> Size(r.x.rows), K |-> 1], r.cfg.num_classes)
    IN  IF t.C < 0 THEN Abort(r, "channels")
        ELSE [r EXCEPT !.scores = r.x.rows,
                       !.shape = <<r.cfg.B, t.n, t.C>>,
                       !.pc = "done"]

----------------------------------------------------------------------------
(* RandLANetClassification *)

\* self.encoder of the classification network
cls_encoder == << <<8, 16>>, <<32, 32>>, <<64, 64>>, <<128, 128>> >>

\* self.reducer = AttentivePooling(256, 512)
reducer == <<256, 512>>

\* t.squeeze(-1) on a shape
Squeeze(shape) ==
    IF Len(shape) > 0 /\ shape[Len(shape)] = 1
    THEN SubSeq(shape, 1, Len(shape) - 1) ELSE shape

\* nn.Linear(in_features, out_features) on a shape; <<>> when it fails
Linear(shape, in_features, out_features) ==
    IF Len(shape) > 0 /\ shape[Len(shape)] = in_features
    THEN [shape EXCEPT ![Len(shape)] = out_features] ELSE <<>>

\* self.fc_end of the classification network: Linear(512, 128), BatchNorm1d,
\* ReLU, Dropout, Linear(128, 32), BatchNorm1d, ReLU, Dropout,
\* Linear(32, num_classes); BatchNorm1d takes (B, C) or (B, C, L)
cls_fc_end(shape, num_classes) ==
    LET h1 == Linear(shape, 512, 128)
        b1 == IF Len(h1) \in {2, 3} /\ h1[2] = 128 THEN h1 ELSE <<>>
        h2 == Linear(b1, 128, 32)
        b2 == IF Len(h2) \in {2, 3} /\ h2[2] = 32 THEN h2 ELSE <<>>
    IN  Linear(b2, 32, num_classes)

NewCls(cfg, input) ==
    [cfg |-> cfg, cloud |-> Cloud(cfg.layout, cfg.N), input |-> input,
     pc |-> "start", err |-> "none",
     N |-> 0, d |-> 0, coords |-> <<>>, x |-> NoTensor,
     permutation |-> <<>>, decimation_ratio |-> 0, stage |-> 0,
     lfa_coords |-> <<>>, lfa_x |-> <<>>, draws |-> 0,
     reduced |-> <<>>, shape |-> <<>>]

\* input = torch.cat((input, features), 2) ... decimation_ratio = 1
ClsStart(r) ==
    LET width == CoordWidth + r.cfg.D
        x0 == SharedMLP([C |-> width, n |-> Size(r.input), K |-> 1],
                        r.cfg.D + CoordWidth, StartWidth)
    IN  IF x0.C < 0 THEN Abort(r, "channels")
        ELSE [r EXCEPT !.pc = "encode",
                       !.N = Size(r.input),
                       !.d = r.cfg.d,
                       !.coords = r.input,
                       !.x = [C |-> x0.C,
                              rows |-> [j \in DOMAIN r.input |-> <<"in", r.input[j]>>]],
                       !.decimation_ratio = 1]

\* the arguments of lfa(coords[:, permutation], x[:, :, permutation])
ClsInput(r, p) ==
    [coords |-> IndexBy(r.coords, p),
     x |-> [C |-> r.x.C, rows |-> IndexBy(r.x.rows, p)]]

\* one iteration of `for lfa in self.encoder`, permutation = p
ClsEncode(r, p) ==
    LET lfa == cls_encoder[r.stage + 1]
        in == ClsInput(r, p)
        out == LocalFeatureAggregation(r.cloud, r.cfg.tie, in.coords, in.x,
                                       lfa[1], lfa[2], r.cfg.K)
        seen == [r EXCEPT !.permutation = p, !.draws = r.draws + 1,
                          !.lfa_coords = in.coords, !.lfa_x = in.x.rows]
    IN  IF \E i \in DOMAIN p : p[i] >= Size(r.coords) \/ p[i] >= Size(r.x.rows)
        THEN Abort(r, "index")
        ELSE IF ~out.knn_ok THEN Abort(seen, "knn")
        ELSE IF ~out.ok THEN Abort(seen, "shape")
        ELSE [seen EXCEPT !.x = out.x,
                          !.decimation_ratio = r.decimation_ratio * r.d,
                          !.stage = r.stage + 1,
                          !.pc = IF r.stage + 1 = Len(cls_encoder) THEN "reduce"
                                 ELSE "encode"]

\* the tensor passed to the reducer as it is
NotPermuted(t) == t

\* x.permute(0, 1, 3, 2): the point axis becomes the last axis
PermuteLast(t) == [C |-> t.C, n |-> t.K, K |-> t.n]

\* x = self.reducer(x.permute(0, 1, 3, 2)).squeeze(-1).squeeze(-1)
ClsReduce(r) ==
    LET t == AttentivePooling(PermuteLast([C |-> r.x.C, n |-> Size(r.x.rows), K |-> 1]),
                              reducer[1], reducer[2])
    IN  IF t.C < 0 THEN Abort(r, "channels")
        ELSE [r EXCEPT !.reduced = Squeeze(Squeeze(<<r.cfg.B, t.C, t.n, t.K>>)),
                       !.pc = "head"]

\* scores = self.fc_end(x); return scores
ClsHead(r) ==
    LET out == cls_fc_end(r.reduced, r.cfg.num_classes)
    IN  IF out = <<>> THEN Abort(r, "channels")
        ELSE [r EXCEPT !.shape = out, !.pc = "done"]

----------------------------------------------------------------------------
(* The calls explored *)

\* point counts around ratio^4: one too few, exact, and up to MaxExtra more
Counts(d) == (Pow(d, Stages) - 1)..(Pow(d, Stages) + MaxExtra)

\* the two kinds of call explored: batch size, feature width, classes, and
\* the geometry of the cloud with the tie-breaking of the neighbor search
Kinds ==
    { [B |-> 1, D |-> 0, num_classes |-> 2, tie |-> "low", layout |-> "line"],
      [B |-> 2, D |-> 3, num_classes |-> 5, tie |-> "high", layout |-> "fold"] }

Call(kind, n, k, d) ==
    [B |-> kind.B, N |-> n, D |-> kind.D, K |-> k, d |-> d,
     num_classes |-> kind.num_classes, tie |-> kind.tie, layout |-> kind.layout]

\* calls with ratio 2: every kind, point count and neighbor count
SmallCalls ==
    { Call(kind, n, k, 2) : kind \in Kinds, n \in Counts(2), k \in 1..MaxK }

\* calls with the default ratio: batch 2, 3 features, 5 classes, 2 neighbors
DefaultCalls ==
    { Call(kind, n, 2, DefaultRatio) :
        kind \in {c \in Kinds : c.B = 2},
        n \in {m \in Counts(DefaultRatio) : m >= Pow(DefaultRatio, Stages)} }

Configs == SmallCalls \cup DefaultCalls

Identity(n) == [j \in 0..(n - 1) |-> j]

Idle == [pc |-> "idle"]

Init ==
    \/ /\ \E c \in Configs : seg = NewRun(c, Identity(c.N))
       /\ cls = Idle
       /\ pair = Idle
    \/ /\ \E c \in Configs : cls = NewCls(c, Identity(c.N))
       /\ seg = Idle
       /\ pair = Idle

RunStart ==
    /\ seg.pc = "start"
    /\ seg' = SegStart(seg)
    /\ UNCHANGED <<cls, pair>>

RunPermute ==
    /\ seg.pc = "permute"
    /\ \E p \in Randperm(seg.N) : seg' = SegPermute(seg, p)
    /\ UNCHANGED <<cls, pair>>

RunEncode ==
    /\ seg.pc = "encode"
    /\ seg' = SegEncode(seg)
    /\ UNCHANGED <<cls, pair>>

RunBridge ==
    /\ seg.pc = "bridge"
    /\ seg' = SegBridge(seg)
    /\ UNCHANGED <<cls, pair>>

RunDecode ==
    /\ seg.pc = "decode"
    /\ seg' = SegDecode(seg)
    /\ UNCHANGED <<cls, pair>>

RunUnpermute ==
    /\ seg.pc = "unpermute"
    /\ seg' = SegUnpermute(seg)
    /\ UNCHANGED <<cls, pair>>

RunHead ==
    /\ seg.pc = "head"
    /\ seg' = SegHead(seg)
    /\ UNCHANGED <<cls, pair>>

ClassifyStart ==
    /\ cls.pc = "start"
    /\ cls' = ClsStart(cls)
    /\ UNCHANGED <<seg, pair>>

ClassifyEncode ==
    /\ cls.pc = "encode"
    /\ \E p \in Randperm(cls.N \div cls.decimation_ratio) : cls' = ClsEncode(cls, p)
    /\ UNCHANGED <<seg, pair>>

ClassifyReduce ==
    /\ cls.pc = "reduce"
    /\ cls' = ClsReduce(cls)
    /\ UNCHANGED <<seg, pair>>

ClassifyHead ==
    /\ cls.pc = "head"
    /\ cls' = ClsHead(cls)
    /\ UNCHANGED <<seg, pair>>

Next ==
    \/ RunStart \/ RunPermute \/ RunEncode \/ RunBridge \/ RunDecode
    \/ RunUnpermute \/ RunHead
    \/ ClassifyStart \/ ClassifyEncode \/ ClassifyReduce \/ ClassifyHead

Spec == Init /\ [][Next]_vars

----------------------------------------------------------------------------
(* Two segmentation calls on the same cloud: a on the points in their order, *)
(* b on the points reordered by q (row j of b's input is point q[j]).  The   *)
(* two passes run statement by statement side by side.                       *)

\* the statement a run is at
SegStep(r) ==
    CASE r.pc = "start" -> SegStart(r)
      [] r.pc = "encode" -> SegEncode(r)
      [] r.pc = "bridge" -> SegBridge(r)
      [] r.pc = "decode" -> SegDecode(r)
      [] r.pc = "unpermute" -> SegUnpermute(r)
      [] r.pc = "head" -> SegHead(r)

\* the permutation b draws: the one a drew (the same seed), or the one that
\* puts the same points at the same positions as in a
SecondDraw(q, p, same) == IF same THEN p ELSE IndexBy(ArgSort(q), p)

PairCalls == {c \in SmallCalls : c.N >= Pow(c.d, Stages)}

PairInit ==
    /\ \E c \in PairCalls : \E q \in Randperm(c.N) : \E same \in BOOLEAN :
           pair = [a |-> NewRun(c, Identity(c.N)), b |-> NewRun(c, q),
                   q |-> q, same |-> same, pc |-> "run"]
    /\ seg = Idle
    /\ cls = Idle

PairPermute ==
    /\ pair.pc = "run" /\ pair.a.pc = "permute" /\ pair.b.pc = "permute"
    /\ \E p \in Randperm(pair.a.N) :
           pair' = [pair EXCEPT !.a = SegPermute(pair.a, p),
                                !.b = SegPermute(pair.b,
                                                 SecondDraw(pair.q, p, pair.same))]
    /\ UNCHANGED <<seg, cls>>

PairStep ==
    /\ pair.pc = "run"
    /\ pair.a.pc \in {"start", "encode", "bridge", "decode", "unpermute", "head"}
    /\ pair.b.pc = pair.a.pc
    /\ pair' = [pair EXCEPT !.a = SegStep(pair.a), !.b = SegStep(pair.b)]
    /\ UNCHANGED <<seg, cls>>

PairNext == PairPermute \/ PairStep

SpecPair == PairInit /\ [][PairNext]_vars

----------------------------------------------------------------------------
(* Properties *)

\* the point a row belongs to: the point of the input row it was computed
\* from through the point-wise path (own features, skip connection)
RECURSIVE Owner(_)
Owner(t) ==
    IF t[1] = "in" THEN t[2]
    ELSE IF t[1] = "lfa" THEN Owner(t[2])
    ELSE Owner(t[3])

SegRuns == seg.pc # "idle"
ClsRuns == cls.pc # "idle"
Divisible(c) == c.N % Pow(c.d, Stages) = 0
\* the neighbor search of every stage has enough points
Searchable(c) == c.N >= Pow(c.d, Stages) /\ c.K <= c.N \div Pow(c.d, Stages - 1)

\* C1: for every B, D and every N divisible by ratio^4 (with enough points for
\* the K-neighbor search) the segmentation pass does not abort, and what it
\* returns has shape (B, N, num_classes)
C1_OutputShape ==
    SegRuns /\ Divisible(seg.cfg) =>
        /\ Searchable(seg.cfg) => seg.pc # "abort"
        /\ seg.pc = "done" =>
              seg.shape = <<seg.cfg.B, seg.cfg.N, seg.cfg.num_classes>>

\* the end-to-end case B=2, N=256, ratio=4, D=3, num_classes=5 returns (2, 256, 5)
C1_Witness ==
    /\ SegRuns /\ seg.pc = "done"
    /\ seg.cfg.B = 2 /\ seg.cfg.N = 256 /\ seg.cfg.d = 4 /\ seg.cfg.D = 3
    /\ seg.cfg.num_classes = 5
    /\ seg.shape = <<2, 256, 5>>

\* C2: once the decoder output is indexed with argsort(permutation), row j is
\* the row of the input point of position j; this holds before the classifier
\* head runs and of the scores it returns
C2_OriginalOrder ==
    SegRuns =>
        /\ seg.pc = "head" =>
              /\ DOMAIN seg.x.rows = DOMAIN seg.input
              /\ \A j \in DOMAIN seg.input : Owner(seg.x.rows[j]) = seg.input[j]
        /\ seg.pc = "done" =>
              /\ DOMAIN seg.scores = DOMAIN seg.input
              /\ \A j \in DOMAIN seg.input : Owner(seg.scores[j]) = seg.input[j]

\* a pass that returned after drawing a permutation that is not its own inverse
C2_Witness ==
    /\ SegRuns /\ seg.pc = "done"
    /\ IndexBy(seg.permutation, seg.permutation) # Identity(seg.N)
    /\ \A j \in DOMAIN seg.input : Owner(seg.scores[j]) = seg.input[j]

C5_StackBalance ==
    SegRuns =>
        /\ seg.err # "pop"
        /\ seg.pops <= seg.pushes
        /\ Len(seg.x_stack) = seg.pushes - seg.pops
        /\ seg.pops > 0 => seg.pushes = Stages
        /\ seg.pc = "done" =>
              seg.pushes = 4 /\ seg.pops = 4 /\ seg.x_stack = <<>>

\* a pass that returned after 4 pushes and 4 pops
C5_Witness ==
    SegRuns /\ seg.pc = "done" /\ seg.pushes = 4 /\ seg.pops = 4

\* C7: every index of the last neighbor search lies in [0, point count of the
\* tensor it gathers from); in encoder stage i that count is N // ratio^i, in
\* a decoder stage it is the size of the smaller set, which is the point
\* count of x
C7_IndexValidity ==
    SegRuns /\ seg.last # "none" =>
        /\ seg.err # "gather"
        /\ \A i \in DOMAIN seg.neighbors :
              \A k \in 1..Len(seg.neighbors[i]) :
                 seg.neighbors[i][k] \in 0..(seg.gather_n - 1)
        /\ seg.gather_n = seg.support_n
        /\ seg.last = "enc" =>
              /\ seg.gather_n = seg.N \div Pow(seg.d, seg.at)
              /\ \A i \in DOMAIN seg.neighbors : Len(seg.neighbors[i]) = seg.cfg.K
        /\ seg.last = "dec" =>
              /\ seg.gather_n = seg.N \div Pow(seg.d, Stages - seg.at)
              /\ \A i \in DOMAIN seg.neighbors : Len(seg.neighbors[i]) = 1

\* a decoder stage in which some point of the larger set is upsampled from the
\* last point of the smaller set
C7_Witness ==
    /\ SegRuns /\ seg.last = "dec" /\ seg.pc = "done"
    /\ \E i \in DOMAIN seg.neighbors :
          i >= seg.gather_n /\ seg.neighbors[i][1] = seg.gather_n - 1

\* C8: at every encoder stage i the coordinates and the features passed to
\* Local Feature Aggregation have N // ratio^i rows each (both variants); in
\* the segmentation variant the permutation is drawn once and the active
\* points are the first N // ratio^i positions of the permuted order
C8_PrefixDecimation ==
    /\ SegRuns /\ seg.pc \notin {"start", "permute", "abort"} =>
          /\ seg.draws = 1
          /\ seg.coords = IndexBy(seg.input, seg.permutation)
    /\ SegRuns /\ seg.pc = "encode" =>
          LET in == EncoderInput(seg)
              n == seg.N \div Pow(seg.d, seg.stage)
          IN  /\ Size(in.coords) = n /\ Size(in.x.rows) = n
              /\ in.coords = Take(IndexBy(seg.input, seg.permutation), n)
              /\ \A i \in DOMAIN in.x.rows : Owner(in.x.rows[i]) = in.coords[i]
    /\ SegRuns /\ seg.pc = "bridge" =>
          /\ Size(seg.x.rows) = seg.N \div Pow(seg.d, Stages)
          /\ \A i \in DOMAIN seg.x.rows : Owner(seg.x.rows[i]) = seg.coords[i]
    /\ ClsRuns /\ cls.stage >= 1 /\ cls.pc # "abort" =>
          LET n == cls.N \div Pow(cls.d, cls.stage - 1)
          IN  Size(cls.lfa_coords) = n /\ Size(cls.lfa_x) = n

\* the last encoder stage of a segmentation pass on permuted points
C8_Witness ==
    /\ SegRuns /\ seg.pc = "encode" /\ seg.stage = Stages - 1
    /\ seg.permutation # Identity(seg.N)
    /\ Size(seg.x.rows) = seg.N \div Pow(seg.d, Stages - 1)
    /\ Size(seg.x.rows) < Size(seg.coords)

\* C9: the entry popped at decoder stage j was pushed at encoder stage 3 - j,
\* has as many points as the upsampled set, and position i of the skip row,
\* of the upsampled set and of the permuted order is the same point; the
\* upsampled row comes from the point's nearest neighbor in the smaller set
C9_LifoMatching ==
    SegRuns /\ seg.pops > 0 =>
        /\ seg.err \notin {"pop", "cat"}
        /\ seg.popped_from = Stages - seg.pops
        /\ seg.skip_n = seg.query_n
        /\ seg.pc \in {"decode", "unpermute"} =>
              \A i \in DOMAIN seg.x.rows :
                 /\ seg.x.rows[i][1] = "dec"
                 /\ Owner(seg.x.rows[i][3]) = seg.coords[i]
                 /\ Owner(seg.x.rows[i][2]) = seg.coords[seg.neighbors[i][1]]

\* the second decoder stage popped what the third encoder stage pushed
C9_Witness ==
    /\ SegRuns /\ seg.pc = "decode" /\ seg.pops = 2 /\ seg.popped_from = 2
    /\ seg.skip_n = seg.N \div Pow(seg.d, 2)

\* C6: what the classifier head of the classification pass is given has one
\* feature vector per batch element: shape (B, 512), whatever N and the
\* number of points left after the last stage
C6_OneVectorPerElement ==
    ClsRuns /\ cls.pc \in {"head", "done"} =>
        /\ cls.reduced = <<cls.cfg.B, reducer[2]>>
        /\ cls.pc = "done" => cls.shape = <<cls.cfg.B, cls.cfg.num_classes>>

\* N = 256 leaves 4 points after the last stage and they reduce to one vector
C6_Witness ==
    /\ ClsRuns /\ cls.pc = "head" /\ cls.cfg.N = 256
    /\ Size(cls.x.rows) = 4 /\ cls.reduced = <<2, 512>>

\* C10: at every encoder stage of the classification pass, the coordinate row
\* and the feature row at each position belong to the same input point
C10_ClsPairing ==
    ClsRuns /\ cls.stage >= 1 =>
        \A i \in DOMAIN cls.lfa_coords :
           Owner(cls.lfa_x[i]) = cls.lfa_coords[i]

\* the result of a run for each point: the output rows put back in the order
\* of the points, q being the order of the run's input
PerPoint(r, q) == IndexBy(r.scores, ArgSort(q))

\* the points kept after each decimation
KeptSets(r) ==
    [s \in 1..Stages |-> {r.coords[i] : i \in DOMAIN Take(r.coords, r.N \div Pow(r.d, s))}]

PairRuns == pair.pc = "run"
BothDone == pair.a.pc = "done" /\ pair.b.pc = "done"

\* C3 as stated: with the same internal permutation in both runs, the run on
\* the reordered input gives every point the result of the run on the input
\* as it is, and keeps the same points at every stage
C3_SameSeedInvariance ==
    PairRuns /\ pair.same /\ BothDone =>
        /\ PerPoint(pair.b, pair.q) = PerPoint(pair.a, Identity(pair.a.N))
        /\ KeptSets(pair.b) = KeptSets(pair.a)

\* C3 as amended: when the second run's internal permutation is argsort(q)[p],
\* the same points sit at the same positions after the permutation, the same
\* points are kept and the same neighbors used at every stage, and every
\* point gets the same result
C3_CompensatedInvariance ==
    PairRuns /\ ~pair.same /\ pair.a.pc \notin {"start", "permute"} =>
        /\ pair.b.coords = pair.a.coords
        /\ pair.b.neighbors = pair.a.neighbors
        /\ pair.b.pc = pair.a.pc
        /\ BothDone =>
              /\ PerPoint(pair.b, pair.q) = PerPoint(pair.a, Identity(pair.a.N))
              /\ KeptSets(pair.b) = KeptSets(pair.a)

\* two runs that returned, the second on a reordered input and with another
\* internal permutation than the first
C3_Witness ==
    /\ PairRuns /\ ~pair.same /\ BothDone
    /\ pair.q # Identity(pair.a.N)
    /\ pair.b.permutation # pair.a.permutation
    /\ pair.b.scores # pair.a.scores

====
